---- MODULE Spec2Model ----
(***************************************************************************)
(* Socket.io chat server (server.js) and the client hook (socket.js).      *)
(*                                                                         *)
(* The server keeps four module-level structures (users, messages,         *)
(* typingUsers, rooms) and registers one handler per inbound socket event. *)
(* Node runs each handler to completion, so every handler is one action.   *)
(* Outbound events are recorded in `last`, the trace of the most recent    *)
(* step: which handler ran, for which socket, and what it emitted to whom. *)
(***************************************************************************)
EXTENDS Integers, Sequences, FiniteSets, TLC

(***************************************************************************)
(* Bounds of the exploration.                                              *)
(***************************************************************************)
MaxEvents == 5      \* handler events explored from the freshly started server
MaxSends == 3       \* messages appended in the store scenarios
MaxTicks == 1       \* milliseconds the clock may advance
MaxReacts == 3      \* add_reaction events in the reaction scenarios
Prefill == 99       \* messages already stored when the store scenarios start
MaxLimit == 3       \* page sizes the paging property is checked at
MaxMounts == 6      \* mounts of the component that uses the hook

Unlimited == 0 - 1  \* fuel value of the scenarios that are capped per category

SocketIds == <<"s1", "s2", "s3">>      \* ids handed out in connection order
Conns == {SocketIds[i] : i \in 1..Len(SocketIds)}
Usernames == {"alice", "bob"}
RoomNames == {"general", "dev"}
Emojis == {"+1", "heart"}
Texts == {"hi"}
StoredNames == {"1-upload.png"}        \* names multer gives to stored files

StoreLimit == 100                      \* if (messages.length > 100)

Undefined == "<undefined>"             \* the JavaScript value undefined
Falsy == {Undefined, ""}

VARIABLES
  alive,        \* the Node process is running (no uncaught exception so far)
  status,       \* socket id -> "new" | "live" | "gone"
  sockRoom,     \* socket.room of each socket (Undefined until join_room)
  joined,       \* adapter rooms of each socket (always holds its own id)
  users,        \* the users object: entries [k, v] in insertion order
  typingUsers,  \* the typingUsers object: entries [k, v] in insertion order
  rooms,        \* the rooms array
  messages,     \* the messages array
  clock,        \* Date.now()
  upload,       \* per client, its sendFile() calls that have not returned,
                \* in call order
  outbox,       \* per client, the send_file packets its socket holds: on
                \* their way to the server, or buffered while disconnected
  last,         \* trace of the latest step: handler, socket, emitted events
  history,      \* history: every message ever pushed, as it was created
  named,        \* history: per stored message, emoji -> add_reaction events that named its id
  session,      \* per socket, its client: the username it gave to connect() and
                \* the dropped socket this one replaces (Undefined when none)
  hook,         \* the client socket's listeners: [mounts, mounted, listeners]
  quota,        \* remaining budget: [sends, ticks, reacts]
  fuel          \* remaining handler events (Unlimited when capped per category)

vars == <<alive, status, sockRoom, joined, users, typingUsers, rooms, messages,
          clock, upload, outbox, last, history, named, session, hook,
          quota, fuel>>

(***************************************************************************)
(* JavaScript helpers.                                                     *)
(***************************************************************************)
\* a || b
OrElse(a, b) == IF a \in Falsy THEN b ELSE a

\* k in obj
ObjHas(obj, k) == \E i \in 1..Len(obj) : obj[i].k = k

\* obj[k], for a key that is present
ObjGet(obj, k) == LET i == CHOOSE j \in 1..Len(obj) : obj[j].k = k IN obj[i].v

\* variant: every assignment adds an entry, also for a key that is present
ObjSet_append(obj, k, v) == Append(obj, [k |-> k, v |-> v])

\* obj[k] = v : an existing key keeps its position, a new key goes last
ObjSet(obj, k, v) ==
  IF ObjHas(obj, k)
  THEN [i \in 1..Len(obj) |-> IF obj[i].k = k THEN [k |-> k, v |-> v] ELSE obj[i]]
  ELSE Append(obj, [k |-> k, v |-> v])

\* delete obj[k]
ObjDelete(obj, k) == SelectSeq(obj, LAMBDA e : e.k # k)

\* Object.values(obj)
ObjectValues(obj) == [i \in 1..Len(obj) |-> obj[i].v]

\* users[socket.id]?.username || 'Anonymous'
SenderName(c) ==
  IF ObjHas(users, c) THEN OrElse(ObjGet(users, c).username, "Anonymous")
  ELSE "Anonymous"

\* arr.includes(x)
Includes(arr, x) == \E i \in 1..Len(arr) : arr[i] = x

\* index of messages.find(msg => msg.id === messageId), 0 when there is none
FindIndex(msgs, messageId) ==
  IF \E i \in 1..Len(msgs) : msgs[i].id = messageId
  THEN CHOOSE i \in 1..Len(msgs) :
         /\ msgs[i].id = messageId
         /\ \A j \in 1..(i - 1) : msgs[j].id # messageId
  ELSE 0

(***************************************************************************)
(* Socket.io delivery.                                                     *)
(***************************************************************************)
Live == {c \in Conns : status[c] = "live"}

\* io.emit(ev, data): every connected socket
IoEmit(ev, data, live) == [ev |-> ev, to |-> live, data |-> data]

\* io.to(room).emit(ev, data): the connected sockets that joined `room`
IoToEmit(room, ev, data) ==
  [ev |-> ev, to |-> {d \in Live : room \in joined[d]}, data |-> data]

\* socket.to(room).emit(ev, data): as io.to(room), minus the emitting socket
SocketToEmit(c, room, ev, data) ==
  [ev |-> ev, to |-> {d \in Live : room \in joined[d]} \ {c}, data |-> data]

\* socket.emit(ev, data): the socket itself
SocketEmit(c, ev, data) == [ev |-> ev, to |-> {c}, data |-> data]

\* `arg` keeps what the step was given, where a property needs it
TraceArg(op, c, arg, emits) ==
  [op |-> op, c |-> c, arg |-> arg, threw |-> FALSE, emits |-> emits]

Trace(op, c, emits) == TraceArg(op, c, Undefined, emits)

\* a TypeError leaves the handler; nothing catches it and the process ends
Throws(op, c) ==
  /\ alive' = FALSE
  /\ last' = [op |-> op, c |-> c, arg |-> Undefined, threw |-> TRUE, emits |-> <<>>]

(***************************************************************************)
(* Budgets.                                                                *)
(***************************************************************************)
HasFuel == fuel # 0
CanRun(c) == alive /\ status[c] = "live" /\ HasFuel
Burn == fuel' = IF fuel = Unlimited THEN fuel ELSE fuel - 1

ZeroCount == [e \in Emojis |-> 0]

\* a client that has called neither connect(username) nor reconnected
Fresh == [username |-> Undefined, from |-> Undefined]

\* the client socket before useSocket() is mounted for the first time
NoHook == [mounts |-> 0, mounted |-> {}, listeners |-> {}]

\* values a caller may hand to sendFile(file): a File, a value that is not
\* a File and has neither type nor size (a string, a plain object), and
\* undefined / null
FileArgs ==
  { [kind |-> "File", type |-> "image/png", size |-> 10],
    [kind |-> "other", type |-> Undefined, size |-> Undefined],
    [kind |-> "nullish", type |-> Undefined, size |-> Undefined] }

\* a sendFile(file) call at its fetch: file is the argument of the call,
\* hasFile says whether the request carries a file, code, filename and url
\* (<<>> or << the url >>) are those of the response once it is there
NewCall(file) ==
  [pc |-> "fetching", file |-> file, hasFile |-> (file.kind = "File"),
   code |-> 0, filename |-> Undefined, url |-> <<>>]

\* positions in upload[c]: a client has at most as many calls running as
\* there are events in a run
CallIds == 1..MaxEvents

\* arr without its i-th element
RemoveAt(arr, i) == SubSeq(arr, 1, i - 1) \o SubSeq(arr, i + 1, Len(arr))

\* the client behind socket c still uses it: the socket is connected, or it
\* dropped and has not been re-established yet
ClientAt(c) ==
  \/ status[c] = "live"
  \/ status[c] = "gone" /\ \A k \in Conns : session[k].from # c

(***************************************************************************)
(* Initial state: the module-level declarations of server.js.              *)
(***************************************************************************)
Boot ==
  /\ alive = TRUE
  /\ status = [c \in Conns |-> "new"]
  /\ sockRoom = [c \in Conns |-> Undefined]
  /\ joined = [c \in Conns |-> {}]
  /\ users = <<>>
  /\ typingUsers = <<>>
  /\ rooms = <<"general">>
  /\ messages = <<>>
  /\ clock = 1
  /\ upload = [c \in Conns |-> <<>>]
  /\ outbox = [c \in Conns |-> <<>>]
  /\ last = Trace("boot", "-", <<>>)
  /\ history = <<>>
  /\ named = <<>>
  /\ session = [c \in Conns |-> Fresh]
  /\ hook = NoHook

Init ==
  /\ Boot
  /\ quota = [sends |-> MaxEvents, ticks |-> MaxTicks, reacts |-> MaxEvents]
  /\ fuel = MaxEvents

(***************************************************************************)
(* io.on('connection'): ids are handed out in order, a socket starts in    *)
(* the room named by its own id and has no socket.room.                    *)
(***************************************************************************)
connection(c) ==
  /\ alive
  /\ HasFuel
  /\ Burn
  /\ UNCHANGED <<session, hook>>
  /\ status[c] = "new"
  /\ \A i, j \in 1..Len(SocketIds) :
       (SocketIds[j] = c /\ i < j) => status[SocketIds[i]] # "new"
  /\ status' = [status EXCEPT ![c] = "live"]
  /\ joined' = [joined EXCEPT ![c] = {c}]
  /\ last' = Trace("connection", c, <<>>)
  /\ UNCHANGED <<alive, sockRoom, users, typingUsers, rooms, messages, clock,
                 upload, outbox, history, named, quota>>

\* Date.now() advances
Tick ==
  /\ alive
  /\ HasFuel
  /\ Burn
  /\ UNCHANGED <<session, hook>>
  /\ quota.ticks > 0
  /\ clock' = clock + 1
  /\ quota' = [quota EXCEPT !.ticks = @ - 1]
  /\ last' = Trace("tick", "-", <<>>)
  /\ UNCHANGED <<alive, status, sockRoom, joined, users, typingUsers, rooms,
                 messages, upload, outbox, history, named>>

(***************************************************************************)
(* socket.on('user_join')                                                  *)
(***************************************************************************)
user_join(c, username) ==
  /\ CanRun(c)
  /\ Burn
  /\ session' = [session EXCEPT ![c].username = username]
  /\ UNCHANGED hook
  /\ users' = ObjSet(users, c, [username |-> username, id |-> c])
  /\ last' = TraceArg("user_join", c, username,
       << IoEmit("user_list", ObjectValues(users'), Live),
          IoEmit("user_joined", [username |-> username, id |-> c], Live) >>)
  /\ UNCHANGED <<alive, status, sockRoom, joined, typingUsers, rooms, messages,
                 clock, upload, outbox, history, named, quota>>

(***************************************************************************)
(* Message construction.                                                   *)
(***************************************************************************)
\* Date.now()
DateNow == clock

\* new Date().toISOString()
ToISOString(t) == <<"ISO-8601", t>>

\* socket.room || 'general'
RoomOf(c) == OrElse(sockRoom[c], "general")

\* `${x}` inside a template string
TemplateStr(x) == IF x = Undefined THEN "undefined" ELSE x

\* `/uploads/${name}`
UploadsUrl(name) == <<"/uploads/", TemplateStr(name)>>

\* a file object a client may put into a send_message payload
PayloadFile ==
  [name |-> "x.png", type |-> "image/png", size |-> 10, url |-> UploadsUrl("x.png")]

\* send_message payloads: none, {message}, {message, room}, and payloads
\* with a further key (isPrivate, file)
MessagePayloads ==
  {[has |-> FALSE, message |-> Undefined, room |-> Undefined]} \cup
  {[has |-> TRUE, message |-> t, room |-> r] :
     t \in Texts, r \in {Undefined, "dev"}} \cup
  {[has |-> TRUE, message |-> t, room |-> Undefined, isPrivate |-> TRUE] :
     t \in Texts} \cup
  {[has |-> TRUE, message |-> t, room |-> Undefined, file |-> PayloadFile] :
     t \in Texts}

\* milliseconds that may pass between the Date.now() and the new Date() of
\* one handler run
Elapse == {d \in {0, 1} : d <= quota.ticks}

FilePayloads ==
  {[has |-> FALSE, name |-> Undefined, type |-> Undefined, size |-> 0]} \cup
  {[has |-> TRUE, name |-> n, type |-> "image/png", size |-> 10] :
     n \in StoredNames}

\* the object literal of the send_message handler, `later` being the clock
\* at new Date().  The spread of messageData comes first: id, sender,
\* senderId, timestamp, room, reactions, readBy and delivered are the
\* server's, every other key of the payload (message, file, isPrivate)
\* goes into the message as the client sent it.
TextMessage(c, messageData, later) ==
  [ message   |-> messageData.message,
    id        |-> DateNow,
    sender    |-> SenderName(c),
    senderId  |-> c,
    timestamp |-> ToISOString(later),
    room      |-> RoomOf(c),
    file      |-> IF "file" \in DOMAIN messageData
                  THEN << messageData.file >> ELSE <<>>,
    isPrivate |-> IF "isPrivate" \in DOMAIN messageData
                  THEN << messageData.isPrivate >> ELSE <<>>,
    reactions |-> <<>>,
    readBy    |-> <<>>,
    delivered |-> <<FALSE>> ]

\* the object literal of the send_file handler (no message, no delivered)
FileMessage(c, fileData, later) ==
  [ message   |-> Undefined,
    id        |-> DateNow,
    sender    |-> SenderName(c),
    senderId  |-> c,
    timestamp |-> ToISOString(later),
    room      |-> RoomOf(c),
    file      |-> << [ name |-> fileData.name, type |-> fileData.type,
                       size |-> fileData.size,
                       url  |-> UploadsUrl(fileData.name) ] >>,
    isPrivate |-> <<>>,
    reactions |-> <<>>,
    readBy    |-> <<>>,
    delivered |-> <<>> ]

\* variant: a full store refuses the newest message instead of dropping the oldest
PushBounded_dropNewest(msgs, message) ==
  LET pushed == Append(msgs, message)
  IN IF Len(pushed) > StoreLimit THEN msgs ELSE pushed

\* messages.push(message); if (messages.length > 100) messages.shift()
PushBounded(msgs, message) ==
  LET pushed == Append(msgs, message)
  IN IF Len(pushed) > StoreLimit THEN Tail(pushed) ELSE pushed

\* messages.push(message)
Push(msgs, message) == Append(msgs, message)

\* the history entries of the messages still stored
Align(hist, msgs) ==
  IF Len(msgs) >= Len(hist) THEN hist
  ELSE SubSeq(hist, Len(hist) - Len(msgs) + 1, Len(hist))

(***************************************************************************)
(* socket.on('send_message')                                               *)
(***************************************************************************)
send_message(c, messageData) ==
  /\ CanRun(c)
  /\ quota.sends > 0
  /\ Burn
  /\ UNCHANGED <<session, hook>>
  /\ \E d \in Elapse :
       LET message == TextMessage(c, messageData, clock + d)
       IN /\ messages' = PushBounded(messages, message)
          /\ history' = Append(history, message)
          /\ named' = Align(Append(named, ZeroCount), messages')
          /\ last' = Trace("send_message", c,
               << IoToEmit(message.room, "receive_message", message),
                  SocketEmit(c, "message_ack",
                             [messageId |-> message.id, status |-> "delivered"]) >>)
          /\ clock' = clock + d
          /\ quota' = [quota EXCEPT !.sends = @ - 1, !.ticks = @ - d]
  /\ UNCHANGED <<alive, status, sockRoom, joined, users, typingUsers, rooms,
                 upload, outbox>>

(***************************************************************************)
(* socket.on('typing')                                                     *)
(***************************************************************************)
\* variant: typing(false) does not clear the entry
typing_sticky(c, isTyping) ==
  /\ CanRun(c)
  /\ Burn
  /\ UNCHANGED <<session, hook>>
  /\ IF ObjHas(users, c)
     THEN LET username == ObjGet(users, c).username
          IN /\ typingUsers' = IF isTyping THEN ObjSet(typingUsers, c, username)
                                           ELSE typingUsers
             /\ last' = TraceArg("typing", c, isTyping,
                  << IoEmit("typing_users", ObjectValues(typingUsers'), Live) >>)
     ELSE /\ typingUsers' = typingUsers
          /\ last' = TraceArg("typing", c, isTyping, <<>>)
  /\ UNCHANGED <<alive, status, sockRoom, joined, users, rooms, messages, clock,
                 upload, outbox, history, named, quota>>

\* variant: the handler does not ask whether the connection is bound
typing_anyone(c, isTyping) ==
  /\ CanRun(c)
  /\ Burn
  /\ UNCHANGED <<session, hook>>
  /\ typingUsers' = IF isTyping THEN ObjSet(typingUsers, c, SenderName(c))
                                ELSE ObjDelete(typingUsers, c)
  /\ last' = TraceArg("typing", c, isTyping,
       << IoEmit("typing_users", ObjectValues(typingUsers'), Live) >>)
  /\ UNCHANGED <<alive, status, sockRoom, joined, users, rooms, messages, clock,
                 upload, outbox, history, named, quota>>

typing(c, isTyping) ==
  /\ CanRun(c)
  /\ Burn
  /\ UNCHANGED <<session, hook>>
  /\ IF ObjHas(users, c)
     THEN LET username == ObjGet(users, c).username
          IN /\ typingUsers' = IF isTyping THEN ObjSet(typingUsers, c, username)
                                           ELSE ObjDelete(typingUsers, c)
             /\ last' = TraceArg("typing", c, isTyping,
                  << IoEmit("typing_users", ObjectValues(typingUsers'), Live) >>)
     ELSE /\ typingUsers' = typingUsers
          /\ last' = TraceArg("typing", c, isTyping, <<>>)
  /\ UNCHANGED <<alive, status, sockRoom, joined, users, rooms, messages, clock,
                 upload, outbox, history, named, quota>>

(***************************************************************************)
(* socket.on('private_message'): the parameter is destructured, so an      *)
(* event without a payload object throws before the body runs.             *)
(***************************************************************************)
PrivateTargets == Conns \cup RoomNames \cup {Undefined}

PrivatePayloads ==
  {[has |-> FALSE, to |-> Undefined, message |-> Undefined]} \cup
  {[has |-> TRUE, to |-> t, message |-> m] : t \in PrivateTargets, m \in Texts}

\* variant: the private message is pushed to the store as well
private_message_stored(c, payload) ==
  /\ CanRun(c)
  /\ Burn
  /\ UNCHANGED <<session, hook>>
  /\ IF ~payload.has
     THEN Throws("private_message", c) /\ UNCHANGED <<messages, clock, quota>>
     ELSE \E d \in Elapse :
            LET messageData == [ id        |-> DateNow,
                                 sender    |-> SenderName(c),
                                 senderId  |-> c,
                                 message   |-> payload.message,
                                 timestamp |-> ToISOString(clock + d),
                                 isPrivate |-> TRUE ]
            IN /\ last' = TraceArg("private_message", c, payload.to,
                    << SocketToEmit(c, payload.to, "private_message", messageData),
                       SocketEmit(c, "private_message", messageData) >>)
               /\ alive' = alive
               /\ messages' = Append(messages, messageData)
               /\ clock' = clock + d
               /\ quota' = [quota EXCEPT !.ticks = @ - d]
  /\ UNCHANGED <<status, sockRoom, joined, users, typingUsers, rooms,
                 upload, outbox, history, named>>

private_message(c, payload) ==
  /\ CanRun(c)
  /\ Burn
  /\ UNCHANGED <<session, hook>>
  /\ IF ~payload.has
     THEN Throws("private_message", c) /\ UNCHANGED <<clock, quota>>
     ELSE \E d \in Elapse :
            LET messageData == [ id        |-> DateNow,
                                 sender    |-> SenderName(c),
                                 senderId  |-> c,
                                 message   |-> payload.message,
                                 timestamp |-> ToISOString(clock + d),
                                 isPrivate |-> TRUE ]
            IN /\ last' = TraceArg("private_message", c, payload.to,
                    << SocketToEmit(c, payload.to, "private_message", messageData),
                       SocketEmit(c, "private_message", messageData) >>)
               /\ alive' = alive
               /\ clock' = clock + d
               /\ quota' = [quota EXCEPT !.ticks = @ - d]
  /\ UNCHANGED <<status, sockRoom, joined, users, typingUsers, rooms, messages,
                 upload, outbox, history, named>>

(***************************************************************************)
(* socket.on('join_room'): socket.join adds a room, nothing leaves one.    *)
(***************************************************************************)
join_room(c, roomName) ==
  /\ CanRun(c)
  /\ Burn
  /\ UNCHANGED <<session, hook>>
  /\ sockRoom' = [sockRoom EXCEPT ![c] = roomName]
  /\ joined' = [joined EXCEPT ![c] = @ \cup {roomName}]
  /\ last' = TraceArg("join_room", c, roomName, <<>>)
  /\ UNCHANGED <<alive, status, users, typingUsers, rooms, messages, clock,
                 upload, outbox, history, named, quota>>

(***************************************************************************)
(* socket.on('create_room')                                                *)
(***************************************************************************)
\* names a client may ask to create
CreateNames == RoomNames \cup {"ops"}

\* variant: the name is pushed without looking for it first
create_room_always(c, roomName) ==
  /\ CanRun(c)
  /\ Burn
  /\ UNCHANGED <<session, hook>>
  /\ rooms' = Append(rooms, roomName)
  /\ last' = TraceArg("create_room", c, roomName,
                      << IoEmit("room_list", rooms', Live) >>)
  /\ UNCHANGED <<alive, status, sockRoom, joined, users, typingUsers, messages,
                 clock, upload, outbox, history, named, quota>>

create_room(c, roomName) ==
  /\ CanRun(c)
  /\ Burn
  /\ UNCHANGED <<session, hook>>
  /\ IF ~Includes(rooms, roomName)
     THEN /\ rooms' = Append(rooms, roomName)
          /\ last' = TraceArg("create_room", c, roomName,
                                   << IoEmit("room_list", rooms', Live) >>)
     ELSE /\ rooms' = rooms
          /\ last' = TraceArg("create_room", c, roomName, <<>>)
  /\ UNCHANGED <<alive, status, sockRoom, joined, users, typingUsers, messages,
                 clock, upload, outbox, history, named, quota>>

(***************************************************************************)
(* socket.on('send_file'): reads fileData.name, so an event without a      *)
(* payload throws; the push is not followed by the length check.           *)
(***************************************************************************)
SendFileHandler(c, fileData, cost) ==
  IF ~fileData.has
  THEN /\ Throws("send_file", c)
       /\ UNCHANGED <<messages, history, named, clock>>
       /\ quota' = [quota EXCEPT !.sends = @ - cost]
  ELSE \E d \in Elapse :
         LET message == FileMessage(c, fileData, clock + d)
         IN /\ messages' = Push(messages, message)
            /\ history' = Append(history, message)
            /\ named' = Align(Append(named, ZeroCount), messages')
            /\ last' = Trace("send_file", c,
                 << IoToEmit(message.room, "receive_message", message) >>)
            /\ alive' = alive
            /\ clock' = clock + d
            /\ quota' = [quota EXCEPT !.sends = @ - cost, !.ticks = @ - d]

\* a send_file event with any payload, from a client of any kind
send_file(c, fileData) ==
  /\ CanRun(c)
  /\ quota.sends > 0
  /\ Burn
  /\ UNCHANGED <<session, hook>>
  /\ SendFileHandler(c, fileData, 1)
  /\ UNCHANGED <<status, sockRoom, joined, users, typingUsers, rooms, upload,
                 outbox>>

(***************************************************************************)
(* socket.on('add_reaction')                                               *)
(***************************************************************************)
\* variant: the reactions array is replaced by the new entry
React_replace(reactions, emoji) == <<[emoji |-> emoji, count |-> 1]>>

\* variant: a new emoji goes to the front of the array
React_unshift(reactions, emoji) ==
  IF \E i \in 1..Len(reactions) : reactions[i].emoji = emoji
  THEN LET k == CHOOSE i \in 1..Len(reactions) :
                  /\ reactions[i].emoji = emoji
                  /\ \A j \in 1..(i - 1) : reactions[j].emoji # emoji
       IN [reactions EXCEPT ![k].count = @ + 1]
  ELSE <<[emoji |-> emoji, count |-> 1]>> \o reactions

\* the reactions array after the find / increment / push of the handler
React(reactions, emoji) ==
  IF \E i \in 1..Len(reactions) : reactions[i].emoji = emoji
  THEN LET k == CHOOSE i \in 1..Len(reactions) :
                  /\ reactions[i].emoji = emoji
                  /\ \A j \in 1..(i - 1) : reactions[j].emoji # emoji
       IN [reactions EXCEPT ![k].count = @ + 1]
  ELSE Append(reactions, [emoji |-> emoji, count |-> 1])

\* ids a client can name: those of the stored messages and one never issued
KnownIds == {messages[i].id : i \in 1..Len(messages)} \cup {0}

ReactionPayloads ==
  {[has |-> FALSE, messageId |-> 0, emoji |-> Undefined]} \cup
  {[has |-> TRUE, messageId |-> i, emoji |-> e] : i \in KnownIds, e \in Emojis}

\* variant: an id that is not found stands for the oldest stored message
add_reaction_first(c, payload) ==
  /\ CanRun(c)
  /\ quota.reacts > 0
  /\ Burn
  /\ UNCHANGED <<session, hook>>
  /\ IF ~payload.has
     THEN /\ Throws("add_reaction", c)
          /\ UNCHANGED <<messages, named>>
     ELSE LET found == FindIndex(messages, payload.messageId)
              k == IF found = 0 /\ Len(messages) > 0 THEN 1 ELSE found
          IN /\ alive' = alive
             /\ named' = [i \in 1..Len(named) |->
                            IF messages[i].id = payload.messageId
                            THEN [named[i] EXCEPT ![payload.emoji] = @ + 1]
                            ELSE named[i]]
             /\ IF k # 0
                THEN /\ messages' = [messages EXCEPT
                                       ![k].reactions = React(@, payload.emoji)]
                     /\ last' = TraceArg("add_reaction", c, payload,
                          << IoToEmit(messages[k].room, "message_updated", messages'[k]) >>)
                ELSE /\ messages' = messages
                     /\ last' = TraceArg("add_reaction", c, payload, <<>>)
  /\ quota' = [quota EXCEPT !.reacts = @ - 1]
  /\ UNCHANGED <<status, sockRoom, joined, users, typingUsers, rooms, clock,
                 upload, outbox, history>>

add_reaction(c, payload) ==
  /\ CanRun(c)
  /\ quota.reacts > 0
  /\ Burn
  /\ UNCHANGED <<session, hook>>
  /\ IF ~payload.has
     THEN /\ Throws("add_reaction", c)
          /\ UNCHANGED <<messages, named>>
     ELSE LET k == FindIndex(messages, payload.messageId)
          IN /\ alive' = alive
             /\ named' = [i \in 1..Len(named) |->
                            IF messages[i].id = payload.messageId
                            THEN [named[i] EXCEPT ![payload.emoji] = @ + 1]
                            ELSE named[i]]
             /\ IF k # 0
                THEN /\ messages' = [messages EXCEPT
                                       ![k].reactions = React(@, payload.emoji)]
                     /\ last' = TraceArg("add_reaction", c, payload,
                          << IoToEmit(messages[k].room, "message_updated", messages'[k]) >>)
                ELSE /\ messages' = messages
                     /\ last' = TraceArg("add_reaction", c, payload, <<>>)
  /\ quota' = [quota EXCEPT !.reacts = @ - 1]
  /\ UNCHANGED <<status, sockRoom, joined, users, typingUsers, rooms, clock,
                 upload, outbox, history>>

(***************************************************************************)
(* socket.on('mark_as_read')                                               *)
(***************************************************************************)
\* variant: the reader is pushed without looking for it first
mark_as_read_always(c, messageId) ==
  /\ CanRun(c)
  /\ Burn
  /\ UNCHANGED <<session, hook>>
  /\ LET k == FindIndex(messages, messageId)
     IN IF k # 0
        THEN /\ messages' = [messages EXCEPT ![k].readBy = Append(@, c)]
             /\ last' = TraceArg("mark_as_read", c, messageId,
                  << IoToEmit(messages[k].room, "message_updated", messages'[k]) >>)
        ELSE /\ messages' = messages
             /\ last' = TraceArg("mark_as_read", c, messageId, <<>>)
  /\ UNCHANGED <<alive, status, sockRoom, joined, users, typingUsers, rooms,
                 clock, upload, outbox, history, named, quota>>

mark_as_read(c, messageId) ==
  /\ CanRun(c)
  /\ Burn
  /\ UNCHANGED <<session, hook>>
  /\ LET k == FindIndex(messages, messageId)
     IN IF k # 0 /\ ~Includes(messages[k].readBy, c)
        THEN /\ messages' = [messages EXCEPT ![k].readBy = Append(@, c)]
             /\ last' = TraceArg("mark_as_read", c, messageId,
                  << IoToEmit(messages[k].room, "message_updated", messages'[k]) >>)
        ELSE /\ messages' = messages
             /\ last' = TraceArg("mark_as_read", c, messageId, <<>>)
  /\ UNCHANGED <<alive, status, sockRoom, joined, users, typingUsers, rooms,
                 clock, upload, outbox, history, named, quota>>

(***************************************************************************)
(* socket.on('disconnect'): the socket has left its rooms and the          *)
(* namespace before the handler runs, so it gets none of the broadcasts.   *)
(***************************************************************************)
\* variant: the entry of the closing socket is left in place
Forget_keep(obj, c) == obj

\* delete users[socket.id]; delete typingUsers[socket.id]
Forget(obj, c) == ObjDelete(obj, c)

\* variant: the snapshot of the registry goes out before the announcement
disconnect_listFirst(c) ==
  /\ CanRun(c)
  /\ Burn
  /\ UNCHANGED <<session, hook>>
  /\ status' = [status EXCEPT ![c] = "gone"]
  /\ joined' = [joined EXCEPT ![c] = {}]
  /\ users' = Forget(users, c)
  /\ typingUsers' = Forget(typingUsers, c)
  /\ LET rest == Live \ {c}
         left == IF ObjHas(users, c)
                 THEN << IoEmit("user_left",
                                [username |-> ObjGet(users, c).username, id |-> c],
                                rest) >>
                 ELSE <<>>
         mood == IF ObjHas(typingUsers, c) THEN "typing" ELSE "quiet"
     IN last' = TraceArg("disconnect", c, mood,
          << IoEmit("user_list", ObjectValues(users'), rest) >> \o left
            \o << IoEmit("typing_users", ObjectValues(typingUsers'), rest) >>)
  /\ outbox' = [outbox EXCEPT ![c] = <<>>]
  /\ UNCHANGED <<alive, sockRoom, rooms, messages, clock, upload, history,
                 named, quota>>

\* the server's disconnect handler; the packets of the socket that have
\* not reached the server by then never do
disconnect(c) ==
  /\ CanRun(c)
  /\ Burn
  /\ UNCHANGED <<session, hook>>
  /\ status' = [status EXCEPT ![c] = "gone"]
  /\ joined' = [joined EXCEPT ![c] = {}]
  /\ users' = Forget(users, c)
  /\ typingUsers' = Forget(typingUsers, c)
  /\ LET rest == Live \ {c}
         left == IF ObjHas(users, c)
                 THEN << IoEmit("user_left",
                                [username |-> ObjGet(users, c).username, id |-> c],
                                rest) >>
                 ELSE <<>>
         mood == IF ObjHas(typingUsers, c) THEN "typing" ELSE "quiet"
     IN last' = TraceArg("disconnect", c, mood,
          left \o << IoEmit("user_list", ObjectValues(users'), rest),
                     IoEmit("typing_users", ObjectValues(typingUsers'), rest) >>)
  /\ outbox' = [outbox EXCEPT ![c] = <<>>]
  /\ UNCHANGED <<alive, sockRoom, rooms, messages, clock, upload, history,
                 named, quota>>

(***************************************************************************)
(* The client's socket is re-established after a drop: the server sees a   *)
(* new connection, the client runs onReconnect.  The client's sendFile()   *)
(* calls go on, and the packets its socket buffered while it was           *)
(* disconnected are sent over the new connection.                          *)
(***************************************************************************)
\* socket.username: the client assigns no such property anywhere
SocketUsername == Undefined

reconnect(old, new) ==
  /\ alive
  /\ HasFuel
  /\ Burn
  /\ status[old] = "gone"
  /\ \A c \in Conns : session[c].from # old
  /\ status[new] = "new"
  /\ \A i, j \in 1..Len(SocketIds) :
       (SocketIds[j] = new /\ i < j) => status[SocketIds[i]] # "new"
  /\ status' = [status EXCEPT ![new] = "live"]
  /\ joined' = [joined EXCEPT ![new] = {new}]
  /\ session' = [session EXCEPT
                   ![new] = [username |-> session[old].username, from |-> old]]
  /\ UNCHANGED hook
  /\ IF SocketUsername \notin Falsy
     THEN /\ users' = ObjSet(users, new,
                             [username |-> SocketUsername, id |-> new])
          /\ last' = TraceArg("reconnect", new, old,
               << IoEmit("user_list", ObjectValues(users'), Live \cup {new}),
                  IoEmit("user_joined",
                         [username |-> SocketUsername, id |-> new],
                         Live \cup {new}) >>)
     ELSE /\ users' = users
          /\ last' = TraceArg("reconnect", new, old, <<>>)
  /\ upload' = [upload EXCEPT ![new] = upload[old], ![old] = <<>>]
  /\ outbox' = [outbox EXCEPT ![new] = outbox[old], ![old] = <<>>]
  /\ UNCHANGED <<alive, sockRoom, typingUsers, rooms, messages, clock,
                 history, named, quota>>

(***************************************************************************)
(* app.get('/api/users')                                                   *)
(***************************************************************************)
HttpReply(data) == [ev |-> "http", to |-> {}, data |-> data]

get_users ==
  /\ alive
  /\ HasFuel
  /\ Burn
  /\ UNCHANGED <<session, hook>>
  /\ last' = Trace("GET /api/users", "-", << HttpReply(ObjectValues(users)) >>)
  /\ UNCHANGED <<alive, status, sockRoom, joined, users, typingUsers, rooms,
                 messages, clock, upload, outbox, history, named, quota>>

(***************************************************************************)
(* app.get('/api/messages').  Query values are strings, kept here as the   *)
(* sequence of their characters; parseInt turns an absent parameter into   *)
(* the string "undefined" before it reads it.                              *)
(***************************************************************************)
AbsentParam == <<"u", "n", "d", "e", "f", "i", "n", "e", "d">>

PageParams ==
  { AbsentParam, <<"x">>, <<"0">>, <<"1">>, <<"2">>, <<"3">>, <<"-", "1">>,
    <<"2", "x">>, <<"0", "x", "2">>, <<"\t", "2">> }

LimitParams ==
  { AbsentParam, <<"x">>, <<"0">>, <<"1">>, <<"2">>, <<"3">>, <<"-", "1">>,
    <<"0", "x", "2">> }

Queries ==
  [page : PageParams, limit : LimitParams, room : {Undefined, "dev"}]

NaN == [nan |-> TRUE, n |-> 0]

\* the value of a digit; the letters are digits of radix 16 only
Digit ==
  [ch \in {"0", "1", "2", "3", "4", "5", "6", "7", "8", "9",
           "a", "b", "c", "d", "e", "f", "A", "B", "C", "D", "E", "F"} |->
     CASE ch = "0" -> 0 [] ch = "1" -> 1 [] ch = "2" -> 2 [] ch = "3" -> 3
       [] ch = "4" -> 4 [] ch = "5" -> 5 [] ch = "6" -> 6 [] ch = "7" -> 7
       [] ch = "8" -> 8 [] ch = "9" -> 9
       [] ch \in {"a", "A"} -> 10 [] ch \in {"b", "B"} -> 11
       [] ch \in {"c", "C"} -> 12 [] ch \in {"d", "D"} -> 13
       [] ch \in {"e", "E"} -> 14 [] ch \in {"f", "F"} -> 15]

\* the white space and line terminators parseInt skips (StrWhiteSpaceChar):
\* tab, line feed, vertical tab U+000B, form feed, carriage return, space,
\* no-break space U+00A0, U+1680, U+2000 to U+200A, U+2028, U+2029, U+202F,
\* U+205F, U+3000 and U+FEFF.  A character that a string of this module
\* cannot hold is written as the name of its code point, one element of the
\* sequence like any other character.
WhiteSpace ==
  { "\t", "\n", "", "\f", "\r", " ", " ", " ",
    "U+2000", "U+2001", "U+2002", "U+2003", "U+2004", "U+2005", "U+2006",
    "U+2007", "U+2008", "U+2009", "U+200A", "U+2028", "U+2029", "U+202F",
    "U+205F", "U+3000", "﻿" }

RECURSIVE TrimStart(_)
TrimStart(str) ==
  IF Len(str) > 0 /\ str[1] \in WhiteSpace THEN TrimStart(Tail(str)) ELSE str

IsDigit(ch, radix) == ch \in DOMAIN Digit /\ Digit[ch] < radix

RECURSIVE DigitPrefixLen(_, _)
DigitPrefixLen(str, radix) ==
  IF Len(str) > 0 /\ IsDigit(str[1], radix)
  THEN 1 + DigitPrefixLen(Tail(str), radix)
  ELSE 0

RECURSIVE DigitsValue(_, _)
DigitsValue(str, radix) ==
  IF Len(str) = 0 THEN 0
  ELSE radix * DigitsValue(SubSeq(str, 1, Len(str) - 1), radix)
         + Digit[str[Len(str)]]

\* variant: the whole value has to be decimal digits
ParseInt_strict(str) ==
  LET n == DigitPrefixLen(str, 10)
  IN IF n = 0 \/ n # Len(str) THEN NaN
     ELSE [nan |-> FALSE, n |-> DigitsValue(str, 10)]

\* parseInt(str) without a radix: leading white space, an optional sign, a
\* 0x or 0X prefix that selects radix 16 and is skipped, then the longest
\* run of digits of the radix; NaN when there is no digit
ParseInt(str) ==
  LET t == TrimStart(str)
      signed == Len(t) > 0 /\ t[1] \in {"-", "+"}
      body == IF signed THEN Tail(t) ELSE t
      hex == Len(body) >= 2 /\ body[1] = "0" /\ body[2] \in {"x", "X"}
      radix == IF hex THEN 16 ELSE 10
      digits == IF hex THEN SubSeq(body, 3, Len(body)) ELSE body
      n == DigitPrefixLen(digits, radix)
      magnitude == DigitsValue(SubSeq(digits, 1, n), radix)
  IN IF n = 0 THEN NaN
     ELSE [nan |-> FALSE,
           n |-> IF signed /\ t[1] = "-" THEN 0 - magnitude ELSE magnitude]

\* v || d for a number v: NaN and 0 are falsy
OrNumber(v, d) == IF v.nan \/ v.n = 0 THEN d ELSE v.n

Min(a, b) == IF a < b THEN a ELSE b
Max(a, b) == IF a > b THEN a ELSE b

\* arr.slice(start, end): negative indexes count from the end
Slice(arr, start, end) ==
  LET len == Len(arr)
      from == IF start < 0 THEN Max(len + start, 0) ELSE Min(start, len)
      upto == IF end < 0 THEN Max(len + end, 0) ELSE Min(end, len)
  IN IF from < upto THEN SubSeq(arr, from + 1, upto) ELSE <<>>

\* messages.filter(msg => msg.room === room)
FilterRoom(msgs, room) == SelectSeq(msgs, LAMBDA m : m.room = room)

\* variant: the first page starts after the first `limit` messages
Paginate_shifted(msgs, room, page, limit) ==
  LET roomMessages == FilterRoom(msgs, room)
      startIndex == page * limit
      endIndex == (page + 1) * limit
  IN [ messages |-> Slice(roomMessages, startIndex, endIndex),
       total    |-> Len(roomMessages),
       page     |-> page,
       limit    |-> limit,
       hasMore  |-> endIndex < Len(roomMessages) ]

\* the filter, the slice and the response body
Paginate(msgs, room, page, limit) ==
  LET roomMessages == FilterRoom(msgs, room)
      startIndex == (page - 1) * limit
      endIndex == page * limit
  IN [ messages |-> Slice(roomMessages, startIndex, endIndex),
       total    |-> Len(roomMessages),
       page     |-> page,
       limit    |-> limit,
       hasMore  |-> endIndex < Len(roomMessages) ]

GetMessages(query) ==
  LET page == OrNumber(ParseInt(query.page), 1)
      limit == OrNumber(ParseInt(query.limit), 20)
      room == OrElse(query.room, "general")
  IN Paginate(messages, room, page, limit)

get_messages(query) ==
  /\ alive
  /\ HasFuel
  /\ Burn
  /\ UNCHANGED <<session, hook>>
  /\ last' = TraceArg("GET /api/messages", "-", query,
                      << HttpReply(GetMessages(query)) >>)
  /\ UNCHANGED <<alive, status, sockRoom, joined, users, typingUsers, rooms,
                 messages, clock, upload, outbox, history, named, quota>>

(***************************************************************************)
(* app.get('/api/rooms')                                                   *)
(***************************************************************************)
GetRooms == rooms

get_rooms ==
  /\ alive
  /\ HasFuel
  /\ Burn
  /\ UNCHANGED <<session, hook>>
  /\ last' = Trace("GET /api/rooms", "-", << HttpReply(GetRooms) >>)
  /\ UNCHANGED <<alive, status, sockRoom, joined, users, typingUsers, rooms,
                 messages, clock, upload, outbox, history, named, quota>>

(***************************************************************************)
(* The client's sendFile(file) and the server's POST /upload.  A call is   *)
(*   fetching  : the fetch is in flight                                    *)
(*   responded : the response arrived (fetch resolves on any HTTP status), *)
(*               its body is being read by response.json()                 *)
(*   rejected  : fetch or response.json() rejected                         *)
(* and leaves upload[c] when sendFile() returns.  socket.emit only hands   *)
(* the packet to the socket: the server's handler runs when it arrives.    *)
(***************************************************************************)
sendFile_fetch(c, file) ==
  /\ ClientAt(c)
  /\ HasFuel
  /\ quota.sends > 0
  /\ Burn
  /\ UNCHANGED <<session, hook>>
  /\ upload' = [upload EXCEPT ![c] = Append(@, NewCall(file))]
  /\ quota' = [quota EXCEPT !.sends = @ - 1]
  /\ last' = TraceArg("sendFile", c, file, <<>>)
  /\ UNCHANGED <<alive, status, sockRoom, joined, users, typingUsers, rooms,
                 messages, clock, outbox, history, named>>

\* app.post('/upload', upload.single('file'), ...)
UploadReply(hasFile, filename) ==
  IF hasFile
  THEN [code |-> 200, filename |-> filename, url |-> << UploadsUrl(filename) >>]
  ELSE [code |-> 400, filename |-> Undefined, url |-> <<>>]

post_upload(c, i, filename) ==
  /\ alive
  /\ HasFuel
  /\ Burn
  /\ UNCHANGED <<session, hook>>
  /\ i \in DOMAIN upload[c]
  /\ upload[c][i].pc = "fetching"
  /\ LET reply == UploadReply(upload[c][i].hasFile, filename)
     IN upload' = [upload EXCEPT ![c][i] = [@ EXCEPT !.pc = "responded",
                                                     !.code = reply.code,
                                                     !.filename = reply.filename,
                                                     !.url = reply.url]]
  /\ last' = Trace("POST /upload", c, <<>>)
  /\ UNCHANGED <<alive, status, sockRoom, joined, users, typingUsers, rooms,
                 messages, clock, outbox, history, named, quota>>

\* the request itself fails
fetch_rejects(c, i) ==
  /\ HasFuel
  /\ Burn
  /\ UNCHANGED <<session, hook>>
  /\ i \in DOMAIN upload[c]
  /\ upload[c][i].pc = "fetching"
  /\ upload' = [upload EXCEPT ![c][i] = [@ EXCEPT !.pc = "rejected"]]
  /\ last' = Trace("fetch rejects", c, <<>>)
  /\ UNCHANGED <<alive, status, sockRoom, joined, users, typingUsers, rooms,
                 messages, clock, outbox, history, named, quota>>

\* the body of the response does not arrive whole
json_rejects(c, i) ==
  /\ HasFuel
  /\ Burn
  /\ UNCHANGED <<session, hook>>
  /\ i \in DOMAIN upload[c]
  /\ upload[c][i].pc = "responded"
  /\ upload' = [upload EXCEPT ![c][i] = [@ EXCEPT !.pc = "rejected"]]
  /\ last' = Trace("json rejects", c, <<>>)
  /\ UNCHANGED <<alive, status, sockRoom, joined, users, typingUsers, rooms,
                 messages, clock, outbox, history, named, quota>>

\* what sendFile() emits once the awaits are over: nothing from the catch
\* block, which a rejected await and the TypeError of file.type on undefined
\* or null lead to; otherwise send_file built from whatever body the
\* response carried
FlowEmits(u) == u.pc = "responded" /\ u.file.kind # "nullish"

FlowFileData(u) ==
  [has |-> TRUE, name |-> u.filename, type |-> u.file.type, size |-> u.file.size,
   url |-> u.url]

\* the rest of sendFile() after its awaits: the emit, or the catch block;
\* the call returns.  The packet goes to the socket, which sends it when
\* connected and keeps it for the reconnection when not
sendFile_resume(c, i) ==
  /\ HasFuel
  /\ Burn
  /\ UNCHANGED <<session, hook>>
  /\ i \in DOMAIN upload[c]
  /\ upload[c][i].pc \in {"responded", "rejected"}
  /\ upload' = [upload EXCEPT ![c] = RemoveAt(@, i)]
  /\ outbox' = IF FlowEmits(upload[c][i])
               THEN [outbox EXCEPT ![c] = Append(@, FlowFileData(upload[c][i]))]
               ELSE outbox
  /\ last' = TraceArg("sendFile returns", c, upload[c][i], <<>>)
  /\ UNCHANGED <<alive, status, sockRoom, joined, users, typingUsers, rooms,
                 messages, clock, history, named, quota>>

\* the oldest send_file packet of a connected socket reaches the server,
\* which runs its send_file handler on it
send_file_arrives(c) ==
  /\ CanRun(c)
  /\ outbox[c] # <<>>
  /\ Burn
  /\ UNCHANGED <<session, hook>>
  /\ outbox' = [outbox EXCEPT ![c] = Tail(@)]
  /\ SendFileHandler(c, Head(outbox[c]), 0)
  /\ UNCHANGED <<status, sockRoom, joined, users, typingUsers, rooms, upload>>

(***************************************************************************)
(* The effect of useSocket(): each mount registers its own listener        *)
(* functions on the shared socket, the cleanup takes some of them off.     *)
(* A listener is the pair of its event and the mount that created it.      *)
(***************************************************************************)
\* socket.on(...) calls of the effect
Registered ==
  { "connect", "disconnect", "reconnect", "reconnecting", "receive_message",
    "private_message", "user_list", "user_joined", "user_left",
    "typing_users", "message_updated", "room_list", "message_ack" }

\* socket.off(...) calls of the cleanup
Removed ==
  { "connect", "disconnect", "receive_message", "private_message",
    "user_list", "user_joined", "user_left", "typing_users",
    "message_updated", "room_list" }

useSocket_effect ==
  /\ HasFuel
  /\ Burn
  /\ hook.mounts < MaxMounts
  /\ LET m == hook.mounts + 1
     IN /\ hook' = [ mounts    |-> m,
                     mounted   |-> hook.mounted \cup {m},
                     listeners |-> hook.listeners
                                     \cup {[ev |-> e, mount |-> m] : e \in Registered} ]
        /\ last' = TraceArg("useEffect", "-", m, <<>>)
  /\ UNCHANGED <<alive, status, sockRoom, joined, users, typingUsers, rooms,
                 messages, clock, upload, outbox, history, named, session, quota>>

useSocket_cleanup(m) ==
  /\ HasFuel
  /\ Burn
  /\ m \in hook.mounted
  /\ hook' = [hook EXCEPT
               !.mounted = @ \ {m},
               !.listeners = @ \ {[ev |-> e, mount |-> m] : e \in Removed}]
  /\ last' = TraceArg("cleanup", "-", m, <<>>)
  /\ UNCHANGED <<alive, status, sockRoom, joined, users, typingUsers, rooms,
                 messages, clock, upload, outbox, history, named, session, quota>>

(***************************************************************************)
(* The server and its clients.                                             *)
(***************************************************************************)
\* the queries without a limit and those that ask for pages of one message
FewQueries == {q \in Queries : q.limit \in {AbsentParam, <<"1">>}}

Next ==
  \/ \E c \in Conns : connection(c)
  \/ Tick
  \/ \E c \in Conns, u \in Usernames : user_join(c, u)
  \/ \E c \in Conns, d \in MessagePayloads : send_message(c, d)
  \/ \E c \in Conns, b \in BOOLEAN : typing(c, b)
  \/ \E c \in Conns, p \in PrivatePayloads : private_message(c, p)
  \/ \E c \in Conns, r \in RoomNames : join_room(c, r)
  \/ \E c \in Conns, r \in CreateNames : create_room(c, r)
  \/ \E c \in Conns, d \in FilePayloads : send_file(c, d)
  \/ \E c \in Conns, p \in ReactionPayloads : add_reaction(c, p)
  \/ \E c \in Conns, i \in KnownIds : mark_as_read(c, i)
  \/ \E c \in Conns : disconnect(c)
  \/ get_users
  \/ get_rooms
  \/ \E q \in FewQueries : get_messages(q)
  \/ \E c \in Conns, f \in FileArgs : sendFile_fetch(c, f)
  \/ \E c \in Conns, i \in CallIds, n \in StoredNames : post_upload(c, i, n)
  \/ \E c \in Conns, i \in CallIds : fetch_rejects(c, i)
  \/ \E c \in Conns, i \in CallIds : json_rejects(c, i)
  \/ \E c \in Conns, i \in CallIds : sendFile_resume(c, i)
  \/ \E c \in Conns : send_file_arrives(c)
  \/ \E old \in Conns, new \in Conns : reconnect(old, new)
  \/ useSocket_effect
  \/ \E m \in 1..MaxMounts : useSocket_cleanup(m)

Spec == Init /\ [][Next]_vars

(***************************************************************************)
(* Store scenarios: a server on which one unbound client has already sent  *)
(* Prefill text messages to the default room, one per millisecond.         *)
(***************************************************************************)
Sent(i) ==
  [ message   |-> "hi",
    id        |-> i,
    sender    |-> "Anonymous",
    senderId  |-> SocketIds[1],
    timestamp |-> ToISOString(i),
    room      |-> "general",
    file      |-> <<>>,
    isPrivate |-> <<>>,
    reactions |-> <<>>,
    readBy    |-> <<>>,
    delivered |-> <<FALSE>> ]

StoreBoot ==
  /\ alive = TRUE
  /\ status = [c \in Conns |-> IF c = SocketIds[1] THEN "live" ELSE "new"]
  /\ sockRoom = [c \in Conns |-> Undefined]
  /\ joined = [c \in Conns |-> IF c = SocketIds[1] THEN {c} ELSE {}]
  /\ users = <<>>
  /\ typingUsers = <<>>
  /\ rooms = <<"general">>
  /\ messages = [i \in 1..Prefill |-> Sent(i)]
  /\ clock = Prefill
  /\ upload = [c \in Conns |-> <<>>]
  /\ outbox = [c \in Conns |-> <<>>]
  /\ last = Trace("send_message", SocketIds[1],
       << IoToEmit("general", "receive_message", Sent(Prefill)),
          SocketEmit(SocketIds[1], "message_ack",
                     [messageId |-> Prefill, status |-> "delivered"]) >>)
  /\ history = [i \in 1..Prefill |-> Sent(i)]
  /\ named = [i \in 1..Prefill |-> ZeroCount]
  /\ session = [c \in Conns |-> Fresh]
  /\ hook = NoHook

InitStore ==
  /\ StoreBoot
  /\ quota = [sends |-> MaxSends, ticks |-> MaxTicks, reacts |-> 0]
  /\ fuel = Unlimited

\* no payload and {message}
StorePayloads ==
  {d \in MessagePayloads : DOMAIN d = {"has", "message", "room"} /\ d.room = Undefined}

NextStore ==
  \/ Tick
  \/ \E c \in Conns, d \in StorePayloads : send_message(c, d)
  \/ \E c \in Conns, d \in FilePayloads : send_file(c, d)
  \/ \E c \in Conns, r \in RoomNames : join_room(c, r)

SpecStore == InitStore /\ [][NextStore]_vars

(***************************************************************************)
(* Presence scenarios: connections, bindings, typing and disconnects,      *)
(* without a bound on the number of events.                                *)
(***************************************************************************)
InitPresence ==
  /\ Boot
  /\ quota = [sends |-> 0, ticks |-> 0, reacts |-> 0]
  /\ fuel = Unlimited

NextPresence ==
  \/ \E c \in Conns : connection(c)
  \/ \E c \in Conns, u \in Usernames : user_join(c, u)
  \/ \E c \in Conns, b \in BOOLEAN : typing(c, b)
  \/ \E c \in Conns : disconnect(c)
  \/ get_users
  \/ \E old \in Conns, new \in Conns : reconnect(old, new)

SpecPresence == InitPresence /\ [][NextPresence]_vars

(***************************************************************************)
(* Eviction scenarios: the prefilled store overflows while its one client  *)
(* reacts to and reads messages by id.                                     *)
(***************************************************************************)
\* an id never issued, the id of the first message evicted, a stored id
ProbeIds == {0, 1, Prefill}

InitEvict ==
  /\ StoreBoot
  /\ quota = [sends |-> 2, ticks |-> 0, reacts |-> 1]
  /\ fuel = Unlimited

NextEvict ==
  \/ user_join(SocketIds[1], "alice")
  \/ typing(SocketIds[1], TRUE)
  \/ \E t \in Texts :
       send_message(SocketIds[1], [has |-> TRUE, message |-> t, room |-> Undefined])
  \/ \E i \in ProbeIds :
       add_reaction(SocketIds[1], [has |-> TRUE, messageId |-> i, emoji |-> "+1"])
  \/ \E i \in ProbeIds : mark_as_read(SocketIds[1], i)

SpecEvict == InitEvict /\ [][NextEvict]_vars

(***************************************************************************)
(* Reaction scenarios: a few messages, reacted to and marked as read.      *)
(***************************************************************************)
InitReact ==
  /\ Boot
  /\ quota = [sends |-> 2, ticks |-> 1, reacts |-> MaxReacts]
  /\ fuel = Unlimited

\* the first connection writes, it and the second one react and read
Author == SocketIds[1]
Readers == {SocketIds[1], SocketIds[2]}

NextReact ==
  \/ \E c \in Readers : connection(c)
  \/ Tick
  \/ \E t \in Texts :
       send_message(Author, [has |-> TRUE, message |-> t, room |-> Undefined])
  \/ \E c \in Readers, p \in ReactionPayloads : add_reaction(c, p)
  \/ \E c \in Readers, i \in KnownIds : mark_as_read(c, i)

SpecReact == InitReact /\ [][NextReact]_vars

(***************************************************************************)
(* Paging scenarios: one client fills two rooms and the store is queried.  *)
(***************************************************************************)
InitPages ==
  /\ Boot
  /\ quota = [sends |-> MaxSends, ticks |-> 0, reacts |-> 0]
  /\ fuel = Unlimited

\* {message} and {message, isPrivate}
PagePayloads ==
  {d \in MessagePayloads : d.has /\ d.room = Undefined /\ "file" \notin DOMAIN d}

NextPages ==
  \/ connection(Author)
  \/ \E r \in RoomNames : join_room(Author, r)
  \/ \E d \in PagePayloads : send_message(Author, d)
  \/ \E q \in Queries : get_messages(q)

SpecPages == InitPages /\ [][NextPages]_vars

(***************************************************************************)
(* Parsing scenarios: a store of up to two messages, queried with values   *)
(* of page and limit that exercise every step of parseInt: each white      *)
(* space character, the signs, the 0x prefix, digits followed by other     *)
(* characters, and values without a digit.                                 *)
(***************************************************************************)
ParseParams ==
  PageParams \cup LimitParams
    \cup { <<w, "2">> : w \in WhiteSpace }
    \cup { <<"-", "0", "x", "2">>, <<"0", "X", "1", "0">>, <<" ", "\t", "5">>,
           <<"0", "x">>, <<"0", "x", "g">>, <<"+">> }

\* the other parameter of a query that exercises one of them
PlainParams == { AbsentParam, <<"0">>, <<"2">>, <<"-", "1">> }

ParseQueries ==
  { q \in [page : ParseParams, limit : ParseParams, room : {Undefined}] :
      q.page \in PlainParams \/ q.limit \in PlainParams }

InitParse ==
  /\ Boot
  /\ quota = [sends |-> 2, ticks |-> 0, reacts |-> 0]
  /\ fuel = Unlimited

NextParse ==
  \/ connection(SocketIds[1])
  \/ \E d \in StorePayloads : send_message(SocketIds[1], d)
  \/ \E q \in ParseQueries : get_messages(q)

SpecParse == InitParse /\ [][NextParse]_vars

(***************************************************************************)
(* Room scenarios: connections creating and joining rooms, without a bound *)
(* on the number of events.                                                *)
(***************************************************************************)
InitRooms ==
  /\ Boot
  /\ quota = [sends |-> 0, ticks |-> 0, reacts |-> 0]
  /\ fuel = Unlimited

NextRooms ==
  \/ \E c \in Conns : connection(c)
  \/ \E c \in Conns, r \in CreateNames : create_room(c, r)
  \/ \E c \in Conns, r \in RoomNames : join_room(c, r)
  \/ \E c \in Conns : disconnect(c)
  \/ get_rooms

SpecRooms == InitRooms /\ [][NextRooms]_vars

(***************************************************************************)
(* Private-message scenarios: two clients, a stored message, private       *)
(* messages, and lookups by any id issued so far.                          *)
(***************************************************************************)
InitPrivate ==
  /\ Boot
  /\ quota = [sends |-> 1, ticks |-> 1, reacts |-> 1]
  /\ fuel = Unlimited

DefaultQuery == [page |-> AbsentParam, limit |-> AbsentParam, room |-> Undefined]

NextPrivate ==
  \/ \E c \in Readers : connection(c)
  \/ Tick
  \/ \E d \in PagePayloads : send_message(Author, d)
  \/ \E c \in Readers, to \in Readers, t \in Texts :
       private_message(c, [has |-> TRUE, to |-> to, message |-> t])
  \/ \E c \in Readers, i \in 0..clock :
       add_reaction(c, [has |-> TRUE, messageId |-> i, emoji |-> "+1"])
  \/ \E c \in Readers, i \in 0..clock : mark_as_read(c, i)
  \/ get_messages(DefaultQuery)

SpecPrivate == InitPrivate /\ [][NextPrivate]_vars

(***************************************************************************)
(* Upload scenarios: two clients that connect, send files and text         *)
(* messages, drop and come back, with every interleaving of the steps of   *)
(* their sendFile() calls, of the packets on their way and of the          *)
(* handlers, all within one millisecond.                                   *)
(***************************************************************************)
InitUpload ==
  /\ Boot
  /\ quota = [sends |-> MaxSends, ticks |-> 0, reacts |-> 0]
  /\ fuel = Unlimited

\* {message}
UploadPayloads ==
  {d \in MessagePayloads : d.has /\ DOMAIN d = {"has", "message", "room"}
                             /\ d.room = Undefined}

NextUpload ==
  \/ \E c \in Readers : connection(c)
  \/ \E c \in Conns, d \in UploadPayloads : send_message(c, d)
  \/ \E c \in Conns : disconnect(c)
  \/ \E old \in Conns, new \in Conns : reconnect(old, new)
  \/ \E c \in Conns, f \in FileArgs : sendFile_fetch(c, f)
  \/ \E c \in Conns, i \in CallIds, n \in StoredNames : post_upload(c, i, n)
  \/ \E c \in Conns, i \in CallIds : fetch_rejects(c, i)
  \/ \E c \in Conns, i \in CallIds : json_rejects(c, i)
  \/ \E c \in Conns, i \in CallIds : sendFile_resume(c, i)
  \/ \E c \in Conns : send_file_arrives(c)

SpecUpload == InitUpload /\ [][NextUpload]_vars

(***************************************************************************)
(* Hook scenarios: the component using useSocket() mounts and unmounts.    *)
(***************************************************************************)
InitHook ==
  /\ Boot
  /\ quota = [sends |-> 0, ticks |-> 0, reacts |-> 0]
  /\ fuel = Unlimited

NextHook ==
  \/ useSocket_effect
  \/ \E m \in 1..MaxMounts : useSocket_cleanup(m)

SpecHook == InitHook /\ [][NextHook]_vars

(***************************************************************************)
(* Properties.                                                             *)
(***************************************************************************)
Emitted == {last.emits[n] : n \in 1..Len(last.emits)}

\* the fields of a message that are set at creation
Core(m) == [ id |-> m.id, sender |-> m.sender, senderId |-> m.senderId,
             room |-> m.room, timestamp |-> m.timestamp,
             message |-> m.message, file |-> m.file,
             isPrivate |-> m.isPrivate ]

\* the count the message shows for an emoji
CountOf(m, emoji) ==
  IF \E i \in 1..Len(m.reactions) : m.reactions[i].emoji = emoji
  THEN LET k == CHOOSE i \in 1..Len(m.reactions) : m.reactions[i].emoji = emoji
       IN m.reactions[k].count
  ELSE 0

\* C1: the store holds at most 100 messages in every reachable state,
\* whatever mix of send_message and send_file events produced it.
C1_StoreBounded == Len(messages) <= StoreLimit

\* C2: when a bound connection that never emitted join_room sends a message,
\* the message goes to room 'general', every live connection whose current
\* room is the default room (the sender included) receives receive_message,
\* and message_ack goes to the sender alone.
C2_DefaultRoomDelivery ==
  ( /\ last.op = "send_message"
    /\ ObjHas(users, last.c)
    /\ sockRoom[last.c] = Undefined )
  => /\ Len(last.emits) = 2
     /\ last.emits[1].ev = "receive_message"
     /\ last.emits[1].data.room = "general"
     /\ {d \in Live : RoomOf(d) = "general"} \subseteq last.emits[1].to
     /\ last.emits[2].ev = "message_ack"
     /\ last.emits[2].to = {last.c}

\* C3: a connection is a member of one room at a time: besides the room of
\* its own id it is in no room but its current one, and no receive_message or
\* message_updated addressed to another room reaches it.
C3_OneRoomAtATime ==
  /\ \A c \in Live : joined[c] \ {c} \subseteq {sockRoom[c]}
  /\ \A e \in Emitted :
       e.ev \in {"receive_message", "message_updated"}
         => \A d \in e.to : e.data.room = RoomOf(d)

\* C4: identifiers in the store are strictly increasing in arrival order, so
\* no two stored messages share one.
C4_StrictlyIncreasingIds ==
  \A i, j \in 1..Len(messages) : i < j => messages[i].id < messages[j].id

\* C5: for every stored message and every emoji, the count shown on the
\* message equals the number of add_reaction events that named the message's
\* identifier and that emoji while the message was stored.
C5_ReactionsCounted ==
  \A i \in 1..Len(messages) : \A e \in Emojis :
    CountOf(messages[i], e) = named[i][e]

\* C6: a private_message event reaches nobody but its sender and the
\* connection named by `to`.
C6_PrivateOnlyToPair ==
  (last.op = "private_message" /\ ~last.threw)
  => \A e \in Emitted : e.to \subseteq {last.c, last.arg}

\* C7: a connection that has disconnected contributes no entry to any
\* user_list or typing_users snapshot nor to any GET users result: every
\* listed user is a live connection, and a typing snapshot is exactly the
\* usernames entered by live connections.
C7_GoneNeverListed ==
  \A e \in Emitted :
    /\ (e.ev = "user_list" \/ last.op = "GET /api/users")
         => \A i \in 1..Len(e.data) : status[e.data[i].id] = "live"
    /\ e.ev = "typing_users"
         => e.data = ObjectValues(SelectSeq(typingUsers,
                                            LAMBDA x : status[x.k] = "live"))

\* a bound connection has just disconnected while typing, and the snapshots
\* sent to the others still list somebody
C7_Witness ==
  /\ last.op = "disconnect"
  /\ last.arg = "typing"
  /\ status[last.c] = "gone"
  /\ \E e \in Emitted : e.ev = "user_list" /\ Len(e.data) > 0
  /\ \E e \in Emitted : e.ev = "typing_users" /\ Len(e.data) > 0

AllText(hist) == \A i \in 1..Len(hist) : Len(hist[i].file) = 0

\* C8: the store is the most recent part of everything appended so far, in
\* arrival order whatever the rooms; once 101 messages have been sent with
\* send_message alone, the store is the 2nd to the 101st of them.
C8_FifoSuffix ==
  /\ Len(messages) <= Len(history)
  /\ \A i \in 1..Len(messages) :
       Core(messages[i]) = Core(history[Len(history) - Len(messages) + i])
  /\ (Len(history) = StoreLimit + 1 /\ AllText(history))
       => /\ Len(messages) = StoreLimit
          /\ \A i \in 1..StoreLimit : Core(messages[i]) = Core(history[i + 1])
          /\ \A i \in 1..StoreLimit : messages[i].id # history[1].id

\* the 101st send_message has evicted the first message, with messages of
\* two rooms in the store
C8_Witness ==
  /\ Len(history) = StoreLimit + 1
  /\ AllText(history)
  /\ Len(messages) = StoreLimit
  /\ messages[1].id = history[2].id
  /\ messages[StoreLimit].room = "dev"

\* C9: no inbound event makes a handler throw: the server keeps running.
C9_NeverThrows == alive /\ ~last.threw

\* C10: a sendFile() call whose upload did not succeed (an error status, or
\* a failed request) returns without having emitted send_file, so that no
\* send_file packet of a failed upload is ever on its way to the server,
\* where it would be appended and broadcast.
C10_NoEmitOnFailedUpload ==
  /\ [][ ( /\ last'.op = "sendFile returns"
           /\ ~(last'.arg.pc = "responded" /\ last'.arg.code = 200) )
         => outbox' = outbox
       ]_vars
  /\ [](\A c \in Conns : \A n \in 1..Len(outbox[c]) : outbox[c][n].url # <<>>)

\* C20: user_join is last-write-wins with one entry per connection: no
\* connection has two entries in the presence list, and right after a
\* user_join the connection's single entry carries the username just given
\* and the user_list snapshot sent to everybody equals the registry.
C20_LastWriteWins ==
  /\ \A i, j \in 1..Len(users) : users[i].k = users[j].k => i = j
  /\ last.op = "user_join"
       => /\ Cardinality({i \in 1..Len(users) : users[i].v.id = last.c}) = 1
          /\ ObjGet(users, last.c).username = last.arg
          /\ last.emits[1].ev = "user_list"
          /\ last.emits[1].to = Live
          /\ last.emits[1].data = ObjectValues(users)

\* a connection that joined before another one has joined again, under a
\* name other than the one it was typing under
C20_Witness ==
  /\ last.op = "user_join"
  /\ Len(users) >= 2
  /\ users[1].k = last.c
  /\ ObjHas(typingUsers, last.c)
  /\ ObjGet(typingUsers, last.c) # last.arg

\* C16 as stated: every typing event from a live connection, bound or not,
\* is answered by a typing_users snapshot sent to all connections.
C16_TypingAlwaysBroadcast ==
  last.op = "typing"
    => \E e \in Emitted : e.ev = "typing_users" /\ e.to = Live

\* C16 amended: a typing event from a bound connection sets (true) or clears
\* (false) that connection's entry in the typing set, under its bound
\* username, and sends the resulting typing_users snapshot to all
\* connections; a typing event from an unbound connection is ignored: the
\* connection is not entered in the typing set and nothing is sent.
C16_TypingFromBound ==
  last.op = "typing"
    => IF ObjHas(users, last.c)
       THEN /\ ObjHas(typingUsers, last.c) <=> last.arg
            /\ last.arg => ObjGet(typingUsers, last.c) = ObjGet(users, last.c).username
            /\ Len(last.emits) = 1
            /\ last.emits[1].ev = "typing_users"
            /\ last.emits[1].to = Live
            /\ last.emits[1].data = ObjectValues(typingUsers)
       ELSE /\ ~ObjHas(typingUsers, last.c)
            /\ last.emits = <<>>

\* an unbound connection has sent typing(true) while somebody else is typing
C16_Witness ==
  /\ last.op = "typing"
  /\ last.arg
  /\ ~ObjHas(users, last.c)
  /\ typingUsers # <<>>

IsPrefix(a, b) == Len(a) <= Len(b) /\ \A i \in 1..Len(a) : a[i] = b[i]

\* C12: the room list never holds a name twice and always holds 'general';
\* no step removes or reorders a room; create_room appends the name and
\* broadcasts room_list, carrying the new list, to all connections exactly
\* when the name was not in the list, and otherwise does nothing.
C12_CreateRoomIdempotent ==
  /\ [](/\ \A i, j \in 1..Len(rooms) : rooms[i] = rooms[j] => i = j
        /\ Includes(rooms, "general"))
  /\ [][ /\ IsPrefix(rooms, rooms')
         /\ last'.op = "create_room"
              => IF Includes(rooms, last'.arg)
                 THEN rooms' = rooms /\ last'.emits = <<>>
                 ELSE /\ rooms' = Append(rooms, last'.arg)
                      /\ Len(last'.emits) = 1
                      /\ last'.emits[1].ev = "room_list"
                      /\ last'.emits[1].to = Live
                      /\ last'.emits[1].data = rooms'
     ]_vars

\* two rooms were created, then one of them was asked for again: the list is
\* as it was and nothing was sent
C12_Witness ==
  /\ last.op = "create_room"
  /\ last.arg = "dev"
  /\ last.emits = <<>>
  /\ rooms = <<"general", "ops", "dev">>
  /\ Cardinality(Live) >= 2

\* C15: right after join_room(name) the name is in the list GET rooms returns.
C15_JoinCreatesRoom ==
  last.op = "join_room" => Includes(GetRooms, last.arg)

\* C13: no read-set holds a connection twice, and a mark_as_read by a
\* connection that is already in the read-set of the message found leaves
\* the store as it was and sends nothing.
C13_MarkReadIdempotent ==
  /\ [](\A k \in 1..Len(messages) :
          \A i, j \in 1..Len(messages[k].readBy) :
            messages[k].readBy[i] = messages[k].readBy[j] => i = j)
  /\ [][ last'.op = "mark_as_read"
           => LET k == FindIndex(messages, last'.arg)
              IN (k # 0 /\ Includes(messages[k].readBy, last'.c))
                   => messages' = messages /\ last'.emits = <<>>
     ]_vars

\* a connection has marked again a message that it and another connection
\* had already read
C13_Witness ==
  /\ last.op = "mark_as_read"
  /\ last.emits = <<>>
  /\ FindIndex(messages, last.arg) # 0
  /\ Includes(messages[FindIndex(messages, last.arg)].readBy, last.c)
  /\ Len(messages[FindIndex(messages, last.arg)].readBy) >= 2

\* C14: in every step, every message that stays in the store keeps its
\* sender, senderId, room and timestamp, keeps every reaction entry with a
\* count that is not smaller, and keeps every member of its read-set.
C14_MessagesGrowOnly ==
  [][ LET evicted == Len(messages) + (Len(history') - Len(history)) - Len(messages')
      IN \A i \in 1..Len(messages) :
           i - evicted >= 1
             => LET old == messages[i]
                    new == messages'[i - evicted]
                IN /\ new.sender = old.sender
                   /\ new.senderId = old.senderId
                   /\ new.room = old.room
                   /\ new.timestamp = old.timestamp
                   /\ Len(new.reactions) >= Len(old.reactions)
                   /\ \A n \in 1..Len(old.reactions) :
                        /\ new.reactions[n].emoji = old.reactions[n].emoji
                        /\ new.reactions[n].count >= old.reactions[n].count
                   /\ IsPrefix(old.readBy, new.readBy)
    ]_vars

\* a message carries two reaction entries and a reader
C14_Witness ==
  \E i \in 1..Len(messages) :
    /\ Len(messages[i].reactions) = 2
    /\ Len(messages[i].readBy) >= 1

\* the pages 1..pages of a room at a limit, one after the other
RECURSIVE PagesUpTo(_, _, _)
PagesUpTo(room, limit, pages) ==
  IF pages = 0 THEN <<>>
  ELSE PagesUpTo(room, limit, pages - 1)
         \o Paginate(messages, room, pages, limit).messages

\* C11: for every room and every limit >= 1, pages 1..ceil(total/limit) of
\* the store put end to end are the messages of that room in store order,
\* and a page says hasMore exactly when page*limit < total.
C11_PagesPartitionRoom ==
  \A room \in RoomNames, limit \in 1..MaxLimit :
    LET total == Len(FilterRoom(messages, room))
        pages == (total + limit - 1) \div limit
    IN /\ PagesUpTo(room, limit, pages) = FilterRoom(messages, room)
       /\ \A page \in 1..(pages + 1) :
            LET body == Paginate(messages, room, page, limit)
            IN /\ body.total = total
               /\ body.hasMore <=> page * limit < total

\* the second page of a room was served, one message long, with a third
\* message on the next page
C11_Witness ==
  /\ last.op = "GET /api/messages"
  /\ LET body == last.emits[1].data
     IN /\ body.page = 2
        /\ body.limit = 1
        /\ body.hasMore
        /\ Len(body.messages) = 1
        /\ body.total = 3

\* what the claim calls an integer, and the integer it stands for
Numerals ==
  { <<"0">>, <<"1">>, <<"2">>, <<"3">>, <<"-", "1">> }

NumeralValue(str) ==
  CASE str = <<"0">> -> 0
    [] str = <<"1">> -> 1
    [] str = <<"2">> -> 2
    [] str = <<"3">> -> 3
    [] str = <<"-", "1">> -> 0 - 1

\* C19 as stated: GET messages answers with page 1 / limit 20 when the
\* parameter is absent or not a number, and with the supplied integer
\* otherwise.
C19_DefaultsOnlyWhenNotNumeric ==
  last.op = "GET /api/messages"
    => LET body == last.emits[1].data
       IN /\ body.page = IF last.arg.page \in Numerals
                         THEN NumeralValue(last.arg.page) ELSE 1
          /\ body.limit = IF last.arg.limit \in Numerals
                          THEN NumeralValue(last.arg.limit) ELSE 20

\* the integer parseInt reads from a value, for the values it reads one
\* from: 2x starts with 2, the digits after 0x or 0X are hexadecimal, and
\* white space before the sign or the first digit is skipped
LeadingNumerals ==
  Numerals \cup { <<"2", "x">>, <<"0", "x", "2">>, <<"-", "0", "x", "2">>,
                  <<"0", "X", "1", "0">>, <<" ", "\t", "5">> }
          \cup { <<w, "2">> : w \in WhiteSpace }

LeadingValue(str) ==
  CASE str \in { <<"2", "x">>, <<"0", "x", "2">> } -> 2
    [] str = <<"-", "0", "x", "2">> -> 0 - 2
    [] str = <<"0", "X", "1", "0">> -> 16
    [] str = <<" ", "\t", "5">> -> 5
    [] str \in { <<w, "2">> : w \in WhiteSpace } -> 2
    [] OTHER -> NumeralValue(str)

\* C19: GET messages answers with page 1 / limit 20 when the parameter is
\* absent or parseInt reads no integer or the integer 0 from it, and
\* otherwise with the integer parseInt reads: after leading white space and
\* an optional sign, the hexadecimal digits that follow 0x, or else the
\* decimal digits the value starts with.
C19_DefaultsOnFalsy ==
  last.op = "GET /api/messages"
    => LET body == last.emits[1].data
       IN /\ body.page = IF /\ last.arg.page \in LeadingNumerals
                            /\ LeadingValue(last.arg.page) # 0
                         THEN LeadingValue(last.arg.page) ELSE 1
          /\ body.limit = IF /\ last.arg.limit \in LeadingNumerals
                             /\ LeadingValue(last.arg.limit) # 0
                          THEN LeadingValue(last.arg.limit) ELSE 20

\* page=0 was answered as page 1 and limit=-1 as limit -1
C19_Witness ==
  /\ last.op = "GET /api/messages"
  /\ last.arg.page = <<"0">>
  /\ last.arg.limit = <<"-", "1">>
  /\ last.emits[1].data.page = 1
  /\ last.emits[1].data.limit = 0 - 1
  /\ Len(messages) >= 2

\* C17: sendFile() emits send_file only after its upload request returned
\* with the file stored, the packet carrying the url POST /upload returned;
\* and the file message the server broadcasts when the packet arrives has
\* that url.
C17_BroadcastAfterUpload ==
  /\ [][ (last'.op = "sendFile returns" /\ outbox' # outbox)
         => LET c == last'.c
                packet == outbox'[c][Len(outbox'[c])]
            IN /\ last'.arg.pc = "responded"
               /\ last'.arg.code = 200
               /\ packet.url = last'.arg.url
       ]_vars
  /\ [][ \A c \in Conns :
           ( /\ outbox[c] # <<>>
             /\ outbox'[c] = Tail(outbox[c])
             /\ last'.op = "send_file" )
           => /\ Len(last'.emits) = 1
              /\ last'.emits[1].ev = "receive_message"
              /\ << last'.emits[1].data.file[1].url >> = Head(outbox[c]).url
       ]_vars

\* C18: right after a dropped connection has been re-established for a client
\* that had joined under a username, the new connection is in the presence
\* list under that username and the list was sent out again.
C18_RejoinsOnReconnect ==
  (last.op = "reconnect" /\ session[last.c].username # Undefined)
    => /\ ObjHas(users, last.c)
       /\ ObjGet(users, last.c).username = session[last.c].username
       /\ \E n \in 1..Len(last.emits) : last.emits[n].ev = "user_list"

\* C21: the reaction entries of a message have pairwise distinct emojis; an
\* add_reaction for an emoji the message already has adds one to that entry
\* and leaves the entries and their order as they were, and one for a new
\* emoji puts an entry with count 1 after the existing ones.
C21_ReactionsInsertionOrder ==
  /\ [](\A k \in 1..Len(messages) :
          \A i, j \in 1..Len(messages[k].reactions) :
            messages[k].reactions[i].emoji = messages[k].reactions[j].emoji
              => i = j)
  /\ [][ (last'.op = "add_reaction" /\ ~last'.threw)
           => LET k == FindIndex(messages, last'.arg.messageId)
                  e == last'.arg.emoji
              IN k # 0
                   => LET old == messages[k].reactions
                          new == messages'[k].reactions
                      IN IF \E n \in 1..Len(old) : old[n].emoji = e
                         THEN /\ Len(new) = Len(old)
                              /\ \A n \in 1..Len(old) :
                                   /\ new[n].emoji = old[n].emoji
                                   /\ new[n].count =
                                        old[n].count
                                          + (IF old[n].emoji = e THEN 1 ELSE 0)
                         ELSE new = Append(old, [emoji |-> e, count |-> 1])
     ]_vars

\* a message got heart, then +1, then heart again
C21_Witness ==
  /\ last.op = "add_reaction"
  /\ ~last.threw
  /\ last.arg.emoji = "heart"
  /\ \E i \in 1..Len(messages) :
       messages[i].reactions = << [emoji |-> "heart", count |-> 2],
                                  [emoji |-> "+1", count |-> 1] >>

\* C22: an add_reaction or mark_as_read whose message id is not the id of a
\* stored message (never issued, or evicted) leaves the message store, the
\* users registry and the typing set as they were and emits nothing.
C22_UnknownIdIsNoOp ==
  [][ ((last'.op = "add_reaction" \/ last'.op = "mark_as_read") /\ ~last'.threw)
        => LET messageId == IF last'.op = "add_reaction"
                            THEN last'.arg.messageId ELSE last'.arg
           IN FindIndex(messages, messageId) = 0
                => /\ messages' = messages
                   /\ users' = users
                   /\ typingUsers' = typingUsers
                   /\ last'.emits = <<>>
    ]_vars

\* a bound, typing client reacted to the first message after it was evicted
C22_Witness ==
  /\ last.op = "add_reaction"
  /\ ~last.threw
  /\ last.arg.messageId = 1
  /\ history[1].id = 1
  /\ FindIndex(messages, 1) = 0
  /\ Len(messages) = StoreLimit
  /\ Len(users) = 1
  /\ Len(typingUsers) = 1

\* a message as it was when it was created
Created(m) == [m EXCEPT !.reactions = <<>>, !.readBy = <<>>]

\* C23: a private_message event leaves the message store as it was, and the
\* store only ever receives the messages that send_message and send_file
\* events create: every stored message, every message of a GET messages
\* result and every message sent in a message_updated event is one of
\* those; and an add_reaction or mark_as_read that names the id of the
\* private message just sent updates at most such a stored message.
C23_PrivateNotStored ==
  /\ [](/\ \A n \in 1..Len(messages) :
             \E h \in 1..Len(history) : Created(messages[n]) = history[h]
        /\ last.op = "GET /api/messages"
             => \A n \in 1..Len(last.emits[1].data.messages) :
                  Includes(messages, last.emits[1].data.messages[n])
        /\ \A n \in 1..Len(last.emits) :
             last.emits[n].ev = "message_updated"
               => Includes(messages, last.emits[n].data))
  /\ [][ /\ (last'.op = "private_message" /\ ~last'.threw)
             => messages' = messages /\ history' = history
         /\ history' # history
             => /\ last'.op \in {"send_message", "send_file"}
                /\ \E m \in {last'.emits[1].data} :
                     /\ last'.emits[1].ev = "receive_message"
                     /\ history' = Append(history, m)
                     /\ m.senderId = last'.c
     ]_vars
  /\ [][ ( /\ last.op = "private_message" /\ ~last.threw
           /\ (last'.op = "add_reaction" \/ last'.op = "mark_as_read")
           /\ ~last'.threw
           /\ last.emits[2].data.id = (IF last'.op = "add_reaction"
                                       THEN last'.arg.messageId ELSE last'.arg) )
           => /\ Len(messages') = Len(messages)
              /\ FindIndex(messages, last.emits[2].data.id) = 0
                   => messages' = messages /\ last'.emits = <<>>
     ]_vars

\* a private message was delivered while the store held a message, and its
\* id is not the id of a stored message
C23_Witness ==
  /\ last.op = "private_message"
  /\ ~last.threw
  /\ last.arg # last.c
  /\ last.emits[1].to = {last.arg}
  /\ Len(messages) = 1
  /\ FindIndex(messages, last.emits[2].data.id) = 0

\* the events of the latest step, in the order they were emitted
EventNames(emits) == [n \in 1..Len(emits) |-> emits[n].ev]

\* C24 as stated: every disconnect, of a bound connection or not, sends a
\* user_left announcement followed by a user_list and a typing_users
\* snapshot.
C24_AlwaysAnnounced ==
  last.op = "disconnect"
    => EventNames(last.emits) = <<"user_left", "user_list", "typing_users">>

\* C24: the disconnect of a bound connection sends to every remaining
\* connection user_left with that user's name and id, then user_list, then
\* typing_users; the disconnect of an unbound connection sends user_list
\* and typing_users only.  The snapshots are the registry and the typing set
\* after the removal and hold no entry of the closed connection.
C24_LeaveThenSnapshots ==
  [][ last'.op = "disconnect"
        => LET c == last'.c
               rest == Live \ {c}
               snapshots == IF ObjHas(users, c)
                            THEN SubSeq(last'.emits, 2, 3)
                            ELSE last'.emits
           IN /\ EventNames(last'.emits) =
                   (IF ObjHas(users, c)
                    THEN <<"user_left", "user_list", "typing_users">>
                    ELSE <<"user_list", "typing_users">>)
              /\ \A n \in 1..Len(last'.emits) : last'.emits[n].to = rest
              /\ ObjHas(users, c)
                   => last'.emits[1].data =
                        [username |-> ObjGet(users, c).username, id |-> c]
              /\ snapshots[1].data = ObjectValues(users')
              /\ snapshots[2].data = ObjectValues(typingUsers')
              /\ \A n \in 1..Len(snapshots[1].data) : snapshots[1].data[n].id # c
              /\ ~ObjHas(users', c)
              /\ ~ObjHas(typingUsers', c)
    ]_vars

\* a bound, typing connection closed while two bound connections stayed
C24_Witness ==
  /\ last.op = "disconnect"
  /\ last.arg = "typing"
  /\ Len(last.emits) = 3
  /\ Cardinality(last.emits[1].to) = 2
  /\ Len(users) = 2

\* C25: every connection that has an entry in the typing set has an entry
\* in the users registry.
C25_TypingSubsetOfUsers ==
  \A i \in 1..Len(typingUsers) : ObjHas(users, typingUsers[i].k)

\* one connection is typing, another is bound and quiet, and a connection
\* has gone and come back before
C25_Witness ==
  /\ Len(typingUsers) = 1
  /\ Len(users) = 2
  /\ last.op = "typing"
  /\ \E c \in Conns : session[c].from # Undefined

\* C26: the username an entry of the typing set holds is the username its
\* connection is bound to in the users registry.
C26_TypingNameIsBoundName ==
  \A i \in 1..Len(typingUsers) :
    /\ ObjHas(users, typingUsers[i].k)
    /\ typingUsers[i].v = ObjGet(users, typingUsers[i].k).username

\* C27: a GET messages response never carries more messages than the limit
\* it reports (none at all when that limit is negative).
C27_AtMostLimit ==
  last.op = "GET /api/messages"
    => LET body == last.emits[1].data
       IN Len(body.messages) <= Max(body.limit, 0)

\* the listeners the socket holds for an event
ListenersOf(e) == {l \in hook.listeners : l.ev = e}

\* C28: every listener on the socket belongs to a mounted hook, so every
\* event has at most one listener per mounted hook.
C28_NoListenerLeak ==
  /\ \A l \in hook.listeners : l.mount \in hook.mounted
  /\ \A e \in Registered :
       Cardinality(ListenersOf(e)) <= Cardinality(hook.mounted)

====
